---- MODULE Spec2Model ----
(***************************************************************************)
(* CloudComments (src/src/index.ts): the abuse-and-moderation pipeline.    *)
(*   - RateLimiter durable object (sliding window, 60 requests / 60 s)     *)
(*   - status decision at comment creation                                 *)
(*   - like toggle and flag handlers, one step per awaited D1 statement    *)
(* Each family of handlers has its own specification over the same state.  *)
(***************************************************************************)
EXTENDS Integers, Sequences, FiniteSets, TLC

VARIABLES
  now,          \* Date.now(), in milliseconds
  requests,     \* RateLimiter.requests: Map<string, number[]> of one durable object
  hist,         \* history: per key, the admitted calls of the trailing 60 s
  lastAdmit,    \* history: the outcome of the latest RateLimiter.fetch
  env,          \* worker bindings and D1 settings
  users,        \* table users, by id
  sites,        \* table sites, by api_key
  comments,     \* table comments: the sequence of rows, id = index
  comment_likes,  \* table comment_likes: set of <<comment_id, user_id>> (UNIQUE)
  comment_flags,  \* table comment_flags: sequence of rows (no UNIQUE constraint)
  queue,        \* EMAIL_QUEUE: the messages sent, in order, each with its delivery state
  pc,           \* per request slot: the await the handler is suspended at
  req,          \* per request slot: the request and the handler's locals
  resp,         \* per request slot: the response returned
  started       \* number of requests started so far with a valid token

rlVars == <<now, requests, hist, lastAdmit>>
dbVars == <<users, sites, comments, comment_likes, comment_flags, queue>>
procVars == <<pc, req, resp, started>>
vars == <<now, requests, hist, lastAdmit, env, users, sites, comments,
          comment_likes, comment_flags, queue, pc, req, resp, started>>

\* ---------------------------------------------------------------- bounds
TickMs == 40000        \* granularity by which the clock advances
MaxTicks == 2          \* the clock stops advancing after MaxTicks ticks
MaxOtherCalls == 1     \* admitted calls recorded for keys other than MainKey
MaxRequests == 4       \* like or flag requests with a valid token in one behaviour
MaxCreates == 2        \* comment submissions with a valid token in one behaviour
MaxWords == 3          \* words of the content given to the spam scorer
MaxHours == 2          \* hours that pass between calls of the spam scorer
MaxCalls == 4          \* calls of the two concurrent callers of the rate limiter
MaxMessages == 3       \* messages sent to the queue that is consumed alone

\* ------------------------------------------------------ program constants
WindowMs == 60000
Capacity == 60

Keys == {"/api/comments/s1/post", "/api/comments/nokey/post", "/login"}
MainKey == "/api/comments/s1/post"

\* --------------------------------------------------------------- storage
UserIds == {1, 2, 3}
CommentIds == {1, 2}
Procs == {1, 2}

NoToken == 0           \* no auth_token cookie
BadToken == -1         \* jwt.verify throws
Tokens == UserIds \cup {NoToken, BadToken}

NoUser == [id |-> 0, reputation |-> 0, is_banned |-> FALSE, created_at |-> 0,
           email_notifications |-> FALSE]
NoSite == [id |-> 0, user_id |-> 0, moderation_enabled |-> FALSE,
           spam_filter_enabled |-> FALSE, auto_approve_threshold |-> 0,
           webhook_url |-> FALSE, total_comments |-> 0]

db == [users |-> users, sites |-> sites, comments |-> comments,
       comment_likes |-> comment_likes, comment_flags |-> comment_flags,
       queue |-> queue]
NoDb == [users |-> <<>>, sites |-> <<>>, comments |-> <<>>,
         comment_likes |-> {}, comment_flags |-> <<>>, queue |-> <<>>]

NoResp == [code |-> 0, body |-> ""]
\* history: the request that used the slot before this one
NoPrev == [kind |-> "", token |-> NoToken, cid |-> 0, resp |-> NoResp, db0 |-> NoDb]

NoReq == [kind |-> "", token |-> NoToken, cid |-> 0, siteKey |-> "", content |-> <<>>,
          user |-> NoUser, site |-> NoSite, existing |-> FALSE, status |-> "",
          score |-> 0, spamScore |-> 0, newId |-> 0, flags |-> 0, author |-> 0,
          admitted |-> FALSE, wrote |-> FALSE, db0 |-> NoDb, prev |-> NoPrev,
          at |-> 0, seen |-> 0, overlap |-> FALSE]

IdleWorker ==
  /\ env = [WEBHOOK_SECRET |-> FALSE, RESEND_API_KEY |-> FALSE, foreign_keys |-> TRUE]
  /\ users = <<>>
  /\ sites = <<>>
  /\ comments = <<>>
  /\ comment_likes = {}
  /\ comment_flags = <<>>
  /\ queue = <<>>
  /\ pc = [p \in Procs |-> "idle"]
  /\ req = [p \in Procs |-> NoReq]
  /\ resp = [p \in Procs |-> NoResp]
  /\ started = 0

\* ------------------------------------------------------------ RateLimiter
\* requests.filter(timestamp => now - timestamp < 60000)
recentOf(reqs, t) == SelectSeq(reqs, LAMBDA timestamp : t - timestamp < WindowMs)

\* mutant: a key left with no timestamp stays in the map
cleanOldEntries_Mut(map, t) == [k \in DOMAIN map |-> recentOf(map[k], t)]

\* cleanOldEntries(): every key keeps its unexpired timestamps, a key left
\* with none is deleted from the map.
cleanOldEntries(map, t) ==
  LET filtered == [k \in DOMAIN map |-> recentOf(map[k], t)]
  IN  [k \in {k \in DOMAIN map : Len(filtered[k]) # 0} |-> filtered[k]]

\* this.requests.get(key) || []
getRequests(map, key) == IF key \in DOMAIN map THEN map[key] ELSE <<>>

\* mutant: the map holds one key at a time
mapSet_Mut(map, key, value) == [k \in {key} |-> value]

\* this.requests.set(key, value)
mapSet(map, key, value) ==
  [k \in (DOMAIN map) \cup {key} |-> IF k = key THEN value ELSE map[k]]

\* mutant: the limit check written with > instead of >=
overLimit_Mut(recentRequests) == Len(recentRequests) > Capacity

\* if (recentRequests.length >= 60) -> 429
overLimit(recentRequests) == Len(recentRequests) >= Capacity

\* RateLimiter.fetch: the response status and the map it leaves behind.
fetchStatus(map, key, t) ==
  IF overLimit(recentOf(getRequests(cleanOldEntries(map, t), key), t)) THEN 429 ELSE 200

\* mutant: the timestamp is pushed before the limit is checked
fetchMap_Mut(map, key, t) ==
  LET cleaned == cleanOldEntries(map, t)
      recentRequests == recentOf(getRequests(cleaned, key), t)
  IN  mapSet(cleaned, key, Append(recentRequests, t))

fetchMap(map, key, t) ==
  LET cleaned == cleanOldEntries(map, t)
      recentRequests == recentOf(getRequests(cleaned, key), t)
  IN  IF overLimit(recentRequests) THEN cleaned
      ELSE mapSet(cleaned, key, Append(recentRequests, t))

\* history of one key: the admitted calls less than 60 s old, the time of the
\* first admitted call, and where the key stands relative to the window that
\* the first admitted call opened:
\*   "none"     nothing admitted yet
\*   "first"    inside the first window
\*   "full"     the first window is over, it admitted Capacity calls and no
\*              call was admitted since
\*   "later"    anything else
NoHist == [recent |-> <<>>, firstAt |-> -1, phase |-> "none"]

histPrune(h, t) ==
  [recent |-> SelectSeq(h.recent, LAMBDA x : t - x < WindowMs),
   firstAt |-> h.firstAt,
   phase |-> IF h.phase = "first" /\ t - h.firstAt >= WindowMs
             THEN (IF Len(h.recent) = Capacity THEN "full" ELSE "later")
             ELSE h.phase]

histAdmit(h, t) ==
  [recent |-> Append(h.recent, t),
   firstAt |-> IF h.phase = "none" THEN t ELSE h.firstAt,
   phase |-> CASE h.phase = "none" -> "first"
               [] h.phase = "full" -> "later"
               [] OTHER -> h.phase]

AdmitRecord(key, status) ==
  [key |-> key, at |-> now, status |-> status,
   priorInWindow |-> Len(hist[key].recent),
   phase |-> hist[key].phase,
   firstAt |-> hist[key].firstAt]

NoAdmit == [key |-> "", at |-> -1, status |-> 0,
            priorInWindow |-> 0, phase |-> "none", firstAt |-> -1]

\* One call of RateLimiter.fetch for `key` (the handler runs without await
\* between its statements, so it is one step).
fetch(key) ==
  LET status == fetchStatus(requests, key, now)
  IN  /\ requests' = fetchMap(requests, key, now)
      /\ lastAdmit' = AdmitRecord(key, status)
      /\ hist' = IF status = 200
                 THEN [hist EXCEPT ![key] = histAdmit(@, now)]
                 ELSE hist
      /\ UNCHANGED now

\* A call arrives at the durable object.
Admit(key) ==
  /\ key = MainKey \/ Len(getRequests(requests, key)) < MaxOtherCalls
  /\ fetch(key)
  /\ UNCHANGED <<env, dbVars, procVars>>

\* The clock advances.
Tick ==
  /\ now < MaxTicks * TickMs
  /\ now' = now + TickMs
  /\ hist' = [k \in Keys |-> histPrune(hist[k], now')]
  /\ UNCHANGED <<requests, lastAdmit, env, dbVars, procVars>>

InitRL ==
  /\ now = 0
  /\ requests = [k \in {} |-> <<>>]
  /\ hist = [k \in Keys |-> NoHist]
  /\ lastAdmit = NoAdmit
  /\ IdleWorker

NextRL == (\E key \in {MainKey, "/login"} : Admit(key)) \/ Tick

SpecRL == InitRL /\ [][NextRL]_vars

\* --------------------------------------------------------------- handlers
Statuses == {"pending", "approved", "spam", "deleted"}

Respond(p, code, body) ==
  /\ pc' = [pc EXCEPT ![p] = "done"]
  /\ resp' = [resp EXCEPT ![p] = [code |-> code, body |-> body]]

Goto(p, label) ==
  /\ pc' = [pc EXCEPT ![p] = label]
  /\ UNCHANGED resp

\* Two callers of one key.  A call is in flight from the middleware's
\* rateLimiter.fetch(c.req.raw) until the object has run its fetch handler;
\* the object runs one handler at a time.  History kept for each call: the
\* time it arrived, the number of unexpired timestamps of the key at that
\* time, and whether the other caller's call was in flight.
Arrive(p) ==
  /\ pc[p] \in {"idle", "done"}
  /\ started < MaxCalls
  /\ started' = started + 1
  /\ pc' = [pc EXCEPT ![p] = "r_call"]
  /\ req' = [req EXCEPT ![p] =
       [NoReq EXCEPT !.kind = "admit", !.at = now,
                     !.seen = Len(recentOf(getRequests(requests, MainKey), now)),
                     !.overlap = \E q \in Procs \ {p} : pc[q] = "r_call"]]
  /\ resp' = [resp EXCEPT ![p] = NoResp]
  /\ UNCHANGED <<rlVars, env, dbVars>>

\* mutant: the limit is checked against the count read when the call
\* arrived, the push happens when the call is served
Serve_Mut(p) ==
  /\ pc[p] = "r_call"
  /\ LET status == IF req[p].seen >= Capacity THEN 429 ELSE 200
         cleaned == cleanOldEntries(requests, now)
     IN  /\ requests' = IF status = 429 THEN cleaned
                        ELSE mapSet(cleaned, MainKey,
                                    Append(getRequests(cleaned, MainKey), now))
         /\ lastAdmit' = AdmitRecord(MainKey, status)
         /\ hist' = IF status = 200
                    THEN [hist EXCEPT ![MainKey] = histAdmit(@, now)]
                    ELSE hist
         /\ Respond(p, status, IF status = 429 THEN "Too many requests" ELSE "OK")
  /\ UNCHANGED <<now, env, dbVars, req, started>>

\* The object runs RateLimiter.fetch for the call of caller p and answers.
Serve(p) ==
  /\ pc[p] = "r_call"
  /\ fetch(MainKey)
  /\ LET status == fetchStatus(requests, MainKey, now)
     IN  Respond(p, status, IF status = 429 THEN "Too many requests" ELSE "OK")
  /\ UNCHANGED <<env, dbVars, req, started>>

\* An object that admitted Capacity - 2 or Capacity - 1 calls for the key at
\* time 0.
InitRLCalls ==
  /\ now = 0
  /\ \E n \in {Capacity - 2, Capacity - 1} :
       /\ requests = [k \in {MainKey} |-> [i \in 1..n |-> 0]]
       /\ hist = [k \in Keys |->
                    IF k = MainKey
                    THEN [recent |-> [i \in 1..n |-> 0], firstAt |-> 0, phase |-> "first"]
                    ELSE NoHist]
       /\ lastAdmit = [key |-> MainKey, at |-> 0, status |-> 200,
                       priorInWindow |-> n - 1, phase |-> "first", firstAt |-> 0]
  /\ IdleWorker

NextRLCalls == (\E p \in Procs : Arrive(p) \/ Serve(p)) \/ Tick
SpecRLCalls == InitRLCalls /\ [][NextRLCalls]_vars

\* A request arrives on a free slot.  `snap` keeps the storage as it is at
\* arrival (and, for likes and flags, the previous request of the slot), for
\* the claims about requests handled one at a time.
Begin(p, kind, first, token, cid, siteKey, content, snap, limit) ==
  /\ pc[p] \in {"idle", "done"}
  /\ token \in UserIds => started < limit
  /\ started' = IF token \in UserIds THEN started + 1 ELSE started
  /\ pc' = [pc EXCEPT ![p] = first]
  /\ req' = [req EXCEPT ![p] =
       [NoReq EXCEPT !.kind = kind, !.token = token, !.cid = cid,
                     !.siteKey = siteKey, !.content = content,
                     !.db0 = IF snap THEN db ELSE NoDb,
                     !.prev = IF snap /\ kind # "create"
                              THEN [kind |-> req[p].kind, token |-> req[p].token,
                                    cid |-> req[p].cid, resp |-> resp[p],
                                    db0 |-> req[p].db0]
                              ELSE NoPrev]]
  /\ resp' = [resp EXCEPT ![p] = NoResp]
  /\ UNCHANGED <<rlVars, env, dbVars>>

\* mutant: the lookup without AND is_banned = 0
selectUser_Mut(token) ==
  IF token \in DOMAIN users THEN users[token] ELSE NoUser

\* SELECT * FROM users WHERE id = ? AND is_banned = 0, after jwt.verify
selectUser(token) ==
  IF token \in DOMAIN users /\ ~users[token].is_banned THEN users[token] ELSE NoUser

\* authMiddleware: no cookie, a token that does not verify and a missing or
\* banned user all redirect to /login; otherwise c.set('user', user); next().
\* (UPDATE users SET last_login: last_login is not part of the state.)
authMiddleware(p, next) ==
  /\ LET user == selectUser(req[p].token)
     IN  IF req[p].token \in {NoToken, BadToken} \/ user.id = 0
         THEN /\ Respond(p, 302, "/login")
              /\ UNCHANGED req
         ELSE /\ Goto(p, next)
              /\ req' = [req EXCEPT ![p].user = user]
  /\ UNCHANGED <<rlVars, env, dbVars, started>>

\* INSERT of a child row: rejected when the parent comment is missing and D1
\* enforces foreign keys.
fkViolation(cid) == env.foreign_keys /\ cid \notin DOMAIN comments

\* mutant: the unlike branch increments too
updateLikes_Mut(rows, cid, d) ==
  [i \in DOMAIN rows |-> IF i = cid THEN [rows[i] EXCEPT !.likes = @ + 1] ELSE rows[i]]

\* UPDATE comments SET likes = likes + d WHERE id = ?
updateLikes(rows, cid, d) ==
  [i \in DOMAIN rows |-> IF i = cid THEN [rows[i] EXCEPT !.likes = @ + d] ELSE rows[i]]

\* UPDATE comments SET flags = flags + 1 WHERE id = ?
updateFlags(rows, cid) ==
  [i \in DOMAIN rows |-> IF i = cid THEN [rows[i] EXCEPT !.flags = @ + 1] ELSE rows[i]]

\* UPDATE comments SET status = ? WHERE id = ?
updateStatus(rows, cid, status) ==
  [i \in DOMAIN rows |-> IF i = cid THEN [rows[i] EXCEPT !.status = status] ELSE rows[i]]

\* UPDATE users SET reputation = reputation + 1 WHERE id = ?
updateReputation(rows, uid) ==
  [i \in DOMAIN rows |-> IF i = uid THEN [rows[i] EXCEPT !.reputation = @ + 1] ELSE rows[i]]

\* ------------------------------------------- POST /api/comments/:id/like
LikeBegin(p, snap, tokens) ==
  \E token \in tokens, cid \in CommentIds :
    Begin(p, "like", "l_auth", token, cid, "", <<>>, snap, MaxRequests)

LikeAuth(p) == pc[p] = "l_auth" /\ authMiddleware(p, "l_check")

\* SELECT id FROM comment_likes WHERE comment_id = ? AND user_id = ?
LikeCheck(p) ==
  /\ pc[p] = "l_check"
  /\ LET existing == <<req[p].cid, req[p].user.id>> \in comment_likes
     IN  /\ req' = [req EXCEPT ![p].existing = existing]
         /\ Goto(p, IF existing THEN "l_delete" ELSE "l_insert")
  /\ UNCHANGED <<rlVars, env, dbVars, started>>

\* DELETE FROM comment_likes WHERE comment_id = ? AND user_id = ?
LikeDelete(p) ==
  /\ pc[p] = "l_delete"
  /\ comment_likes' = comment_likes \ {<<req[p].cid, req[p].user.id>>}
  /\ req' = [req EXCEPT ![p].wrote = TRUE]
  /\ Goto(p, "l_dec")
  /\ UNCHANGED <<rlVars, env, users, sites, comments, comment_flags, queue, started>>

\* mutant: the unlike takes back the reputation the like credited
LikeDec_Mut(p) ==
  /\ pc[p] = "l_dec"
  /\ comments' = updateLikes(comments, req[p].cid, -1)
  /\ users' = IF req[p].cid \in DOMAIN comments
              THEN [users EXCEPT ![comments[req[p].cid].user_id].reputation = @ - 1]
              ELSE users
  /\ Respond(p, 200, "liked:false")
  /\ UNCHANGED <<rlVars, env, sites, comment_likes, comment_flags, queue,
                 req, started>>

\* UPDATE comments SET likes = likes - 1; return { liked: false }
LikeDec(p) ==
  /\ pc[p] = "l_dec"
  /\ comments' = updateLikes(comments, req[p].cid, -1)
  /\ Respond(p, 200, "liked:false")
  /\ UNCHANGED <<rlVars, env, users, sites, comment_likes, comment_flags, queue,
                 req, started>>

\* INSERT INTO comment_likes: throws on UNIQUE(comment_id, user_id) or on the
\* foreign key; the uncaught error is answered with 500.
LikeInsert(p) ==
  /\ pc[p] = "l_insert"
  /\ IF <<req[p].cid, req[p].user.id>> \in comment_likes \/ fkViolation(req[p].cid)
     THEN /\ Respond(p, 500, "Internal Server Error")
          /\ UNCHANGED <<comment_likes, req>>
     ELSE /\ comment_likes' = comment_likes \cup {<<req[p].cid, req[p].user.id>>}
          /\ req' = [req EXCEPT ![p].wrote = TRUE]
          /\ Goto(p, "l_inc")
  /\ UNCHANGED <<rlVars, env, users, sites, comments, comment_flags, queue, started>>

\* UPDATE comments SET likes = likes + 1
LikeInc(p) ==
  /\ pc[p] = "l_inc"
  /\ comments' = updateLikes(comments, req[p].cid, 1)
  /\ Goto(p, "l_author")
  /\ UNCHANGED <<rlVars, env, users, sites, comment_likes, comment_flags, queue,
                 req, started>>

\* SELECT user_id FROM comments WHERE id = ?
LikeAuthor(p) ==
  /\ pc[p] = "l_author"
  /\ IF req[p].cid \in DOMAIN comments
     THEN /\ req' = [req EXCEPT ![p].author = comments[req[p].cid].user_id]
          /\ Goto(p, "l_rep")
     ELSE /\ Respond(p, 200, "liked:true")
          /\ UNCHANGED req
  /\ UNCHANGED <<rlVars, env, dbVars, started>>

\* UPDATE users SET reputation = reputation + 1; return { liked: true }
LikeRep(p) ==
  /\ pc[p] = "l_rep"
  /\ users' = updateReputation(users, req[p].author)
  /\ Respond(p, 200, "liked:true")
  /\ UNCHANGED <<rlVars, env, sites, comments, comment_likes, comment_flags, queue,
                 req, started>>

LikeStep(p) ==
  \/ LikeAuth(p) \/ LikeCheck(p) \/ LikeDelete(p) \/ LikeDec(p)
  \/ LikeInsert(p) \/ LikeInc(p) \/ LikeAuthor(p) \/ LikeRep(p)

\* ------------------------------------------- POST /api/comments/:id/flag
FlagBegin(p, snap, tokens) ==
  \E token \in tokens, cid \in CommentIds :
    Begin(p, "flag", "f_auth", token, cid, "", <<>>, snap, MaxRequests)

FlagAuth(p) == pc[p] = "f_auth" /\ authMiddleware(p, "f_check")

\* rows of comment_flags for (comment, user)
flagRows(rows, cid, uid) ==
  {i \in DOMAIN rows : rows[i].comment_id = cid /\ rows[i].user_id = uid}

\* mutant: the handler without the duplicate check
FlagCheck_Mut(p) ==
  /\ pc[p] = "f_check"
  /\ Goto(p, "f_insert")
  /\ UNCHANGED <<rlVars, env, dbVars, req, started>>

\* SELECT id FROM comment_flags WHERE comment_id = ? AND user_id = ?
FlagCheck(p) ==
  /\ pc[p] = "f_check"
  /\ IF flagRows(comment_flags, req[p].cid, req[p].user.id) # {}
     THEN /\ Respond(p, 400, "You have already flagged this comment")
          /\ req' = [req EXCEPT ![p].existing = TRUE]
     ELSE /\ Goto(p, "f_insert")
          /\ UNCHANGED req
  /\ UNCHANGED <<rlVars, env, dbVars, started>>

\* INSERT INTO comment_flags (comment_id, user_id, reason, created_at)
FlagInsert(p) ==
  /\ pc[p] = "f_insert"
  /\ IF fkViolation(req[p].cid)
     THEN /\ Respond(p, 500, "Internal Server Error")
          /\ UNCHANGED <<comment_flags, req>>
     ELSE /\ comment_flags' = Append(comment_flags,
                [comment_id |-> req[p].cid, user_id |-> req[p].user.id])
          /\ req' = [req EXCEPT ![p].wrote = TRUE]
          /\ Goto(p, "f_inc")
  /\ UNCHANGED <<rlVars, env, users, sites, comments, comment_likes, queue, started>>

\* UPDATE comments SET flags = flags + 1
FlagInc(p) ==
  /\ pc[p] = "f_inc"
  /\ comments' = updateFlags(comments, req[p].cid)
  /\ Goto(p, "f_read")
  /\ UNCHANGED <<rlVars, env, users, sites, comment_likes, comment_flags, queue,
                 req, started>>

\* auto-moderate threshold of the flag handler
FlagThreshold == 3

\* mutant: the status update made only at exactly 3 flags
tooManyFlags_Eq(flags) == flags = FlagThreshold

\* mutant: the threshold compared with > instead of >=
tooManyFlags_Mut(flags) == flags > FlagThreshold

\* if (comment && comment.flags >= 3)
tooManyFlags(flags) == flags >= FlagThreshold

\* SELECT flags FROM comments WHERE id = ?
FlagRead(p) ==
  /\ pc[p] = "f_read"
  /\ IF req[p].cid \in DOMAIN comments /\ tooManyFlags(comments[req[p].cid].flags)
     THEN /\ req' = [req EXCEPT ![p].flags = comments[req[p].cid].flags]
          /\ Goto(p, "f_status")
     ELSE /\ Respond(p, 200, "success:true")
          /\ UNCHANGED req
  /\ UNCHANGED <<rlVars, env, dbVars, started>>

\* UPDATE comments SET status = 'pending'; return { success: true }
FlagStatus(p) ==
  /\ pc[p] = "f_status"
  /\ comments' = updateStatus(comments, req[p].cid, "pending")
  /\ Respond(p, 200, "success:true")
  /\ UNCHANGED <<rlVars, env, users, sites, comment_likes, comment_flags, queue,
                 req, started>>

FlagStep(p) ==
  \/ FlagAuth(p) \/ FlagCheck(p) \/ FlagInsert(p) \/ FlagInc(p)
  \/ FlagRead(p) \/ FlagStatus(p)

DayMs == 86400000
Noon == 2 * DayMs      \* the time at which the handler specifications run

userRow(id, reputation, created_at) ==
  [id |-> id, reputation |-> reputation, is_banned |-> FALSE,
   created_at |-> created_at, email_notifications |-> TRUE]

commentRow(site_id, user_id, status, spam_score) ==
  [site_id |-> site_id, user_id |-> user_id, status |-> status,
   spam_score |-> spam_score, likes |-> 0, flags |-> 0]

\* ------------------------------------------------------------ SpamScorer
\* Content is a sequence of whitespace-separated words; for each word, the
\* number of matches of each pattern of calculateSpamScore:
\*   vocab   /\b(viagra|cialis|casino|poker|loan|mortgage)\b/gi
\*   promo   /\b(click here|buy now|limited offer|act now)\b/gi
\*   url     /https?:\/\/[^\s]+/g
\*   caps    /\b[A-Z]{5,}\b/g
\*   scheme  /https?:\/\//g   (linkCount)
Hits(vocab, promo, url, caps, scheme) ==
  [vocab |-> vocab, promo |-> promo, url |-> url, caps |-> caps, scheme |-> scheme]

Words == {"hello", "casino", "buy now", "http://a.io", "http://a.io?u=http://b.io",
          "HELLO", "VIAGRA"}

\* mutant: the URL pattern left out of spamPatterns
wordHits_Mut(w) ==
  CASE w = "casino" -> Hits(1, 0, 0, 0, 0)
    [] w = "buy now" -> Hits(0, 1, 0, 0, 0)
    [] w = "http://a.io" -> Hits(0, 0, 0, 0, 1)
    [] w = "http://a.io?u=http://b.io" -> Hits(0, 0, 0, 0, 2)
    [] w = "HELLO" -> Hits(0, 0, 0, 1, 0)
    [] w = "VIAGRA" -> Hits(1, 0, 0, 1, 0)
    [] OTHER -> Hits(0, 0, 0, 0, 0)

wordHits(w) ==
  CASE w = "casino" -> Hits(1, 0, 0, 0, 0)
    [] w = "buy now" -> Hits(0, 1, 0, 0, 0)
    [] w = "http://a.io" -> Hits(0, 0, 1, 0, 1)
    [] w = "http://a.io?u=http://b.io" -> Hits(0, 0, 1, 0, 2)
    [] w = "HELLO" -> Hits(0, 0, 0, 1, 0)
    [] w = "VIAGRA" -> Hits(1, 0, 0, 1, 0)
    [] OTHER -> Hits(0, 0, 0, 0, 0)

RECURSIVE patternMatches(_)
\* sum over the four spamPatterns of content.match(pattern).length
patternMatches(content) ==
  IF content = <<>> THEN 0
  ELSE LET h == wordHits(Head(content))
       IN  h.vocab + h.promo + h.url + h.caps + patternMatches(Tail(content))

RECURSIVE linkCount_Mut(_)
\* mutant: the links counted with the URL pattern of spamPatterns
linkCount_Mut(content) ==
  IF content = <<>> THEN 0
  ELSE wordHits(Head(content)).url + linkCount_Mut(Tail(content))

RECURSIVE linkCount(_)
\* (content.match(/https?:\/\//g) || []).length
linkCount(content) ==
  IF content = <<>> THEN 0
  ELSE wordHits(Head(content)).scheme + linkCount(Tail(content))

Min(a, b) == IF a < b THEN a ELSE b

\* mutant: the sum returned without Math.min(score, 100)
calculateSpamScore_Mut(content, user, t) ==
  patternMatches(content) * 10
    + (IF t - user.created_at < DayMs THEN 20 ELSE 0)
    + (IF user.reputation < 10 THEN 15 ELSE 0)
    + (IF linkCount(content) > 2 THEN linkCount(content) * 15 ELSE 0)

\* t is Date.now(); created_at holds whole seconds, which
\* new Date(user.created_at).getTime() returns in milliseconds
calculateSpamScore(content, user, t) ==
  Min(patternMatches(content) * 10
        + (IF t - user.created_at < DayMs THEN 20 ELSE 0)
        + (IF user.reputation < 10 THEN 15 ELSE 0)
        + (IF linkCount(content) > 2 THEN linkCount(content) * 15 ELSE 0),
      100)

\* ------------------------------------------------------- ModerationEngine
\* mutant: the score dropped when the filter is on
effectiveScore_Mut(site, score) == IF site.spam_filter_enabled THEN 0 ELSE score

\* const spamScore = site.spam_filter_enabled ? calculateSpamScore(...) : 0
effectiveScore(site, score) == IF site.spam_filter_enabled THEN score ELSE 0

\* mutant: the threshold compared with > instead of >=
commentStatus_Mut(site, user, spamScore) ==
  IF site.moderation_enabled
  THEN IF spamScore > site.auto_approve_threshold THEN "spam"
       ELSE IF user.reputation < 10 THEN "pending"
       ELSE "approved"
  ELSE "approved"

\* let status = 'approved'; if (site.moderation_enabled) { ... }
commentStatus(site, user, spamScore) ==
  IF site.moderation_enabled
  THEN IF spamScore >= site.auto_approve_threshold THEN "spam"
       ELSE IF user.reputation < 10 THEN "pending"
       ELSE "approved"
  ELSE "approved"

\* the fixed message of the response
statusMessage(status) ==
  IF status = "pending" THEN "Your comment is awaiting moderation."
  ELSE IF status = "spam" THEN "Your comment was flagged as spam."
  ELSE "Comment posted successfully!"

\* ----------------------------------- POST /api/comments/:siteKey/:postSlug
SiteKeys == {"s1", "nokey"}
Contents == {<<"hello">>, <<"casino", "buy now">>}

pathOf(siteKey) == IF siteKey = "s1" THEN MainKey ELSE "/api/comments/nokey/post"

CreateBegin(p, snap, tokens, contents) ==
  \E token \in tokens, siteKey \in SiteKeys, content \in contents :
    /\ \/ pathOf(siteKey) = MainKey
       \/ Len(getRequests(requests, pathOf(siteKey))) < MaxOtherCalls
    /\ Begin(p, "create", "c_limit", token, 0, siteKey, content, snap, MaxCreates)

\* mutant: the middleware answers 429 to nobody and always calls next()
CreateLimit_Mut(p) ==
  /\ pc[p] = "c_limit"
  /\ fetch(pathOf(req[p].siteKey))
  /\ Goto(p, "c_auth")
  /\ req' = [req EXCEPT ![p].admitted = TRUE]
  /\ UNCHANGED <<env, dbVars, started>>

\* rateLimitMiddleware: await rateLimiter.fetch(c.req.raw)
CreateLimit(p) ==
  /\ pc[p] = "c_limit"
  /\ fetch(pathOf(req[p].siteKey))
  /\ IF fetchStatus(requests, pathOf(req[p].siteKey), now) = 429
     THEN /\ Respond(p, 429, "Too many requests")
          /\ UNCHANGED req
     ELSE /\ Goto(p, "c_auth")
          /\ req' = [req EXCEPT ![p].admitted = TRUE]
  /\ UNCHANGED <<env, dbVars, started>>

\* cookie, jwt.verify and SELECT * FROM users WHERE id = ? AND is_banned = 0
CreateAuth(p) ==
  /\ pc[p] = "c_auth"
  /\ LET user == selectUser(req[p].token)
     IN  IF req[p].token = NoToken
         THEN Respond(p, 401, "Authentication required") /\ UNCHANGED req
         ELSE IF req[p].token = BadToken
         THEN Respond(p, 401, "Invalid token") /\ UNCHANGED req
         ELSE IF user.id = 0
         THEN Respond(p, 403, "User not found or banned") /\ UNCHANGED req
         ELSE Goto(p, "c_site") /\ req' = [req EXCEPT ![p].user = user]
  /\ UNCHANGED <<rlVars, env, dbVars, started>>

\* SELECT * FROM sites WHERE api_key = ?, then the score and the status
CreateSite(p) ==
  /\ pc[p] = "c_site"
  /\ IF req[p].siteKey \notin DOMAIN sites
     THEN Respond(p, 404, "Invalid site key") /\ UNCHANGED req
     ELSE LET site == sites[req[p].siteKey]
              score == calculateSpamScore(req[p].content, req[p].user, now)
              spamScore == effectiveScore(site, score)
          IN  /\ req' = [req EXCEPT ![p].site = site, ![p].score = score,
                                    ![p].spamScore = spamScore,
                                    ![p].status = commentStatus(site, req[p].user, spamScore)]
              /\ Goto(p, "c_insert")
  /\ UNCHANGED <<rlVars, env, dbVars, started>>

\* the same submission as a reply: parent_id of the body names a comment
ReplyBegin(p, snap, tokens, contents, parents) ==
  \E token \in tokens, siteKey \in SiteKeys, content \in contents, parent_id \in parents :
    /\ \/ pathOf(siteKey) = MainKey
       \/ Len(getRequests(requests, pathOf(siteKey))) < MaxOtherCalls
    /\ Begin(p, "create", "c_limit", token, parent_id, siteKey, content, snap, MaxCreates)

\* mutant: the error of the INSERT is swallowed and the handler goes on
CreateInsert_Mut(p) ==
  /\ pc[p] = "c_insert"
  /\ IF req[p].cid # 0 /\ fkViolation(req[p].cid)
     THEN UNCHANGED <<comments, req>>
     ELSE /\ comments' = Append(comments,
                commentRow(req[p].site.id, req[p].user.id, req[p].status, req[p].spamScore))
          /\ req' = [req EXCEPT ![p].newId = Len(comments) + 1, ![p].wrote = TRUE]
  /\ Goto(p, "c_count")
  /\ UNCHANGED <<rlVars, env, users, sites, comment_likes, comment_flags, queue, started>>

\* INSERT INTO comments (...) VALUES (..., parent_id || null, ...): one
\* statement, which throws on FOREIGN KEY (parent_id) REFERENCES comments(id);
\* the uncaught error is answered with 500.
CreateInsert(p) ==
  /\ pc[p] = "c_insert"
  /\ IF req[p].cid # 0 /\ fkViolation(req[p].cid)
     THEN /\ Respond(p, 500, "Internal Server Error")
          /\ UNCHANGED <<comments, req>>
     ELSE /\ comments' = Append(comments,
                commentRow(req[p].site.id, req[p].user.id, req[p].status, req[p].spamScore))
          /\ req' = [req EXCEPT ![p].newId = Len(comments) + 1, ![p].wrote = TRUE]
          /\ Goto(p, "c_count")
  /\ UNCHANGED <<rlVars, env, users, sites, comment_likes, comment_flags, queue, started>>

\* mutant: read-then-write, the new total computed from the row the handler read
updateTotalComments_Mut(rows, site) ==
  [k \in DOMAIN rows |->
     IF rows[k].id = site.id
     THEN [rows[k] EXCEPT !.total_comments = site.total_comments + 1]
     ELSE rows[k]]

\* UPDATE sites SET total_comments = total_comments + 1 WHERE id = ?
updateTotalComments(rows, site) ==
  [k \in DOMAIN rows |->
     IF rows[k].id = site.id THEN [rows[k] EXCEPT !.total_comments = @ + 1] ELSE rows[k]]

\* mutant: the reputation update is issued whatever the status
CreateCount_Mut(p) ==
  /\ pc[p] = "c_count"
  /\ sites' = updateTotalComments(sites, req[p].site)
  /\ Goto(p, "c_rep")
  /\ UNCHANGED <<rlVars, env, users, comments, comment_likes, comment_flags, queue,
                 req, started>>

\* the counter update, then if (status === 'approved') { ... }
CreateCount(p) ==
  /\ pc[p] = "c_count"
  /\ sites' = updateTotalComments(sites, req[p].site)
  /\ Goto(p, IF req[p].status = "approved" THEN "c_rep" ELSE "c_hook")
  /\ UNCHANGED <<rlVars, env, users, comments, comment_likes, comment_flags, queue,
                 req, started>>

\* if (status === 'approved') UPDATE users SET reputation = reputation + 1
CreateRep(p) ==
  /\ pc[p] = "c_rep"
  /\ users' = updateReputation(users, req[p].user.id)
  /\ Goto(p, "c_hook")
  /\ UNCHANGED <<rlVars, env, sites, comments, comment_likes, comment_flags, queue,
                 req, started>>

\* A message handed to EMAIL_QUEUE.send.  The queue keeps for each message
\* its delivery state ("queued", "batch": delivered to the consumer and not
\* yet processed, "retry", "acked") and, as history, whether an attempt for
\* it succeeded (ok) and whether one failed.
newMessage(type, id, status, to) ==
  [type |-> type, id |-> id, status |-> status, to |-> to,
   state |-> "queued", ok |-> FALSE, failed |-> FALSE]

webhookMessage(r) == newMessage("webhook", r.newId, r.status, 0)

\* mutant: the message is sent whenever the site has a webhook URL
CreateHook_Mut(p) ==
  /\ pc[p] = "c_hook"
  /\ queue' = IF req[p].site.webhook_url
              THEN Append(queue, webhookMessage(req[p]))
              ELSE queue
  /\ Goto(p, "c_mail")
  /\ UNCHANGED <<rlVars, env, users, sites, comments, comment_likes, comment_flags,
                 req, started>>

\* if (site.webhook_url && c.env.WEBHOOK_SECRET) { digest; EMAIL_QUEUE.send(...) }
\* (the handler does not wait for the promise that send returns)
CreateHook(p) ==
  /\ pc[p] = "c_hook"
  /\ queue' = IF req[p].site.webhook_url /\ env.WEBHOOK_SECRET
              THEN Append(queue, webhookMessage(req[p]))
              ELSE queue
  /\ Goto(p, "c_mail")
  /\ UNCHANGED <<rlVars, env, users, sites, comments, comment_likes, comment_flags,
                 req, started>>

\* mutant: a webhook message of the comment that failed already turns the
\* response into an error
CreateMail_Mut(p) ==
  /\ pc[p] = "c_mail"
  /\ LET owner == IF req[p].site.user_id \in DOMAIN users
                  THEN users[req[p].site.user_id] ELSE NoUser
     IN  queue' = IF env.RESEND_API_KEY /\ owner.id # 0 /\ owner.email_notifications
                  THEN Append(queue, newMessage("new_comment", 0, "", owner.id))
                  ELSE queue
  /\ IF \E i \in DOMAIN queue : queue[i].id = req[p].newId /\ queue[i].failed
     THEN Respond(p, 500, "Internal Server Error")
     ELSE Respond(p, 200, statusMessage(req[p].status))
  /\ UNCHANGED <<rlVars, env, users, sites, comments, comment_likes, comment_flags,
                 req, started>>

\* if (c.env.EMAIL_QUEUE && c.env.RESEND_API_KEY) { SELECT site owner; send }
\* and the response
CreateMail(p) ==
  /\ pc[p] = "c_mail"
  /\ LET owner == IF req[p].site.user_id \in DOMAIN users
                  THEN users[req[p].site.user_id] ELSE NoUser
     IN  queue' = IF env.RESEND_API_KEY /\ owner.id # 0 /\ owner.email_notifications
                  THEN Append(queue, newMessage("new_comment", 0, "", owner.id))
                  ELSE queue
  /\ Respond(p, 200, statusMessage(req[p].status))
  /\ UNCHANGED <<rlVars, env, users, sites, comments, comment_likes, comment_flags,
                 req, started>>

CreateStep(p) ==
  \/ CreateLimit(p) \/ CreateAuth(p) \/ CreateSite(p) \/ CreateInsert(p)
  \/ CreateCount(p) \/ CreateRep(p) \/ CreateHook(p) \/ CreateMail(p)

\* --------------------------------------------------------- queue consumer
MaxBatchSize == 10

RECURSIVE firstQueued(_, _)
\* indices of the first n queued messages from index i on
firstQueued(i, n) ==
  IF i > Len(queue) \/ n = 0 THEN {}
  ELSE IF queue[i].state = "queued" THEN {i} \cup firstQueued(i + 1, n - 1)
  ELSE firstQueued(i + 1, n)

\* The queue delivers a batch of the waiting messages to queue(batch, env);
\* one invocation of the consumer at a time.
StartBatch ==
  /\ \A i \in DOMAIN queue : queue[i].state # "batch"
  /\ \E i \in DOMAIN queue : queue[i].state = "queued"
  /\ queue' = [i \in DOMAIN queue |->
                 IF i \in firstQueued(1, MaxBatchSize)
                 THEN [queue[i] EXCEPT !.state = "batch"] ELSE queue[i]]
  /\ UNCHANGED <<rlVars, env, users, sites, comments, comment_likes, comment_flags,
                 procVars>>

\* deliverWebhook / sendWelcomeEmail / sendNewCommentEmail: does the call
\* throw, given whether the remote end answers with response.ok
threw(message, responseOk) ==
  CASE message.type = "webhook" -> ~responseOk
    [] message.type \in {"welcome", "new_comment"} -> env.RESEND_API_KEY /\ ~responseOk
    [] OTHER -> FALSE

\* mutant: message.ack() in a finally block, no message.retry()
processed_Mut(message, responseOk) ==
  IF threw(message, responseOk)
  THEN [message EXCEPT !.state = "acked", !.failed = TRUE]
  ELSE [message EXCEPT !.state = "acked",
                       !.ok = message.type = "webhook" \/ env.RESEND_API_KEY]

\* the body of the loop: try { switch (type) {...}; message.ack() }
\* catch { console.error; message.retry() }
processed(message, responseOk) ==
  IF threw(message, responseOk)
  THEN [message EXCEPT !.state = "retry", !.failed = TRUE]
  ELSE [message EXCEPT !.state = "acked",
                       !.ok = message.type = "webhook" \/ env.RESEND_API_KEY]

\* the message the loop of the consumer is at
current(i) ==
  /\ i \in DOMAIN queue
  /\ queue[i].state = "batch"
  /\ \A j \in 1..(i - 1) : queue[j].state # "batch"

\* One iteration of for (const message of batch.messages), the remote end
\* answering with response.ok = responseOk.
Consume(i, responseOk) ==
  /\ current(i)
  /\ queue' = [queue EXCEPT ![i] = processed(@, responseOk)]
  /\ UNCHANGED <<rlVars, env, users, sites, comments, comment_likes, comment_flags,
                 procVars>>

\* The queue makes a message marked for retry wait for a later batch.
Redeliver(i) ==
  /\ i \in DOMAIN queue
  /\ queue[i].state = "retry"
  /\ queue' = [queue EXCEPT ![i].state = "queued"]
  /\ UNCHANGED <<rlVars, env, users, sites, comments, comment_likes, comment_flags,
                 procVars>>

\* -------------------------------------------------------- specifications
\* A worker whose database holds three users and one comment of user 1 that
\* nobody has liked or flagged yet.
InitOneComment ==
  /\ now = Noon
  /\ requests = [k \in {} |-> <<>>]
  /\ hist = [k \in Keys |-> NoHist]
  /\ lastAdmit = NoAdmit
  /\ env \in [WEBHOOK_SECRET : {FALSE}, RESEND_API_KEY : {FALSE}, foreign_keys : BOOLEAN]
  /\ users = [id \in UserIds |-> userRow(id, 0, 0)]
  /\ sites = <<>>
  /\ \E status \in Statuses : comments = <<commentRow(1, 1, status, 0)>>
  /\ comment_likes = {}
  /\ comment_flags = <<>>
  /\ queue = <<>>
  /\ pc = [p \in Procs |-> "idle"]
  /\ req = [p \in Procs |-> NoReq]
  /\ resp = [p \in Procs |-> NoResp]
  /\ started = 0

\* like toggles by logged-in users, requests overlapping
NextLike == \E p \in Procs : LikeBegin(p, FALSE, UserIds) \/ LikeStep(p)
SpecLike == InitOneComment /\ [][NextLike]_vars

\* like toggles with any cookie, one request at a time
NextLikeSeq == LikeBegin(1, TRUE, Tokens) \/ LikeStep(1)
SpecLikeSeq == InitOneComment /\ [][NextLikeSeq]_vars

\* flag submissions by logged-in users, requests overlapping
NextFlag == \E p \in Procs : FlagBegin(p, FALSE, UserIds) \/ FlagStep(p)
SpecFlag == InitOneComment /\ [][NextFlag]_vars

\* flag submissions with any cookie, one request at a time
NextFlagSeq == FlagBegin(1, TRUE, Tokens) \/ FlagStep(1)
SpecFlagSeq == InitOneComment /\ [][NextFlagSeq]_vars

HourMs == 60 * 60 * 1000

siteRow(moderation_enabled, spam_filter_enabled, auto_approve_threshold) ==
  [id |-> 1, user_id |-> 3, moderation_enabled |-> moderation_enabled,
   spam_filter_enabled |-> spam_filter_enabled,
   auto_approve_threshold |-> auto_approve_threshold,
   webhook_url |-> TRUE, total_comments |-> 0]

\* User 1 is an established author, user 2 registered two hours ago, user 3
\* owns the site.
SiteUsers == <<userRow(1, 10, 0), userRow(2, 0, Noon - 2 * HourMs), userRow(3, 50, 0)>>

\* A worker with one site and no comment yet.
InitSiteOf(rows, moderation, filter, secret, hook) ==
  /\ now = Noon
  /\ requests = [k \in {} |-> <<>>]
  /\ hist = [k \in Keys |-> NoHist]
  /\ lastAdmit = NoAdmit
  /\ env \in [WEBHOOK_SECRET : secret, RESEND_API_KEY : {TRUE}, foreign_keys : {TRUE}]
  /\ users = rows
  /\ \E moderation_enabled \in moderation, spam_filter_enabled \in filter,
        webhook_url \in hook :
       sites = [k \in {"s1"} |->
                  [siteRow(moderation_enabled, spam_filter_enabled, 30)
                     EXCEPT !.webhook_url = webhook_url]]
  /\ comments = <<>>
  /\ comment_likes = {}
  /\ comment_flags = <<>>
  /\ queue = <<>>
  /\ pc = [p \in Procs |-> "idle"]
  /\ req = [p \in Procs |-> NoReq]
  /\ resp = [p \in Procs |-> NoResp]
  /\ started = 0

InitSite(moderation, filter, secret, hook) ==
  InitSiteOf(SiteUsers, moderation, filter, secret, hook)

\* the same with a webhook URL configured for the site
InitOneSite(moderation, filter, secret) == InitSite(moderation, filter, secret, {TRUE})

\* comment submissions by logged-in users, requests overlapping
NextCreate == \E p \in Procs : CreateBegin(p, FALSE, UserIds, Contents) \/ CreateStep(p)
InitCreate == InitOneSite(BOOLEAN, {TRUE}, BOOLEAN)
SpecCreate == InitCreate /\ [][NextCreate]_vars

\* comment submissions with any cookie, one request at a time
NextCreateSeq == CreateBegin(1, TRUE, Tokens, {<<"hello">>}) \/ CreateStep(1)
InitCreateSeq == InitOneSite({TRUE}, {TRUE}, {TRUE})
SpecCreateSeq == InitCreateSeq /\ [][NextCreateSeq]_vars

\* one URL and one promotional phrase
ScenarioContent == <<"http://a.io", "buy now">>

\* comment submissions by logged-in users to a site of any moderation policy,
\* one request at a time
NextCreatePolicy ==
  CreateBegin(1, TRUE, UserIds, {<<"hello">>, ScenarioContent}) \/ CreateStep(1)
InitCreatePolicy == InitOneSite(BOOLEAN, BOOLEAN, {TRUE})
SpecCreatePolicy == InitCreatePolicy /\ [][NextCreatePolicy]_vars

\* A worker with one site, one approved comment of user 1 (not flagged, or
\* flagged by users 2 and 3), and the users of `banned` banned since;
\* comment submissions, like toggles and flag submissions of users 1 and 2,
\* one request at a time.
InitWritesOf(banned) ==
  /\ now = Noon
  /\ requests = [k \in {} |-> <<>>]
  /\ hist = [k \in Keys |-> NoHist]
  /\ lastAdmit = NoAdmit
  /\ env \in [WEBHOOK_SECRET : {TRUE}, RESEND_API_KEY : {TRUE}, foreign_keys : BOOLEAN]
  /\ users = [id \in UserIds |->
               IF id \in banned THEN [SiteUsers[id] EXCEPT !.is_banned = TRUE]
               ELSE SiteUsers[id]]
  /\ sites = [k \in {"s1"} |-> siteRow(TRUE, TRUE, 30)]
  /\ \/ /\ comments = <<commentRow(1, 1, "approved", 0)>>
        /\ comment_flags = <<>>
     \/ /\ comments = <<[commentRow(1, 1, "approved", 0) EXCEPT !.flags = 2]>>
        /\ comment_flags = <<[comment_id |-> 1, user_id |-> 2],
                             [comment_id |-> 1, user_id |-> 3]>>
  /\ comment_likes = {}
  /\ queue = <<>>
  /\ pc = [p \in Procs |-> "idle"]
  /\ req = [p \in Procs |-> NoReq]
  /\ resp = [p \in Procs |-> NoResp]
  /\ started = 0

InitWrites == InitWritesOf({2})

NextWrites ==
  \/ LikeBegin(1, TRUE, {1, 2}) \/ LikeStep(1)
  \/ FlagBegin(1, TRUE, {1, 2}) \/ FlagStep(1)
  \/ CreateBegin(1, TRUE, {1, 2}, {<<"hello">>}) \/ CreateStep(1)
SpecWrites == InitWrites /\ [][NextWrites]_vars

\* the same requests when nobody is banned
InitActivity == InitWritesOf({})
NextActivity ==
  \/ LikeBegin(1, TRUE, {1, 2}) \/ LikeStep(1)
  \/ FlagBegin(1, TRUE, {1, 2}) \/ FlagStep(1)
  \/ CreateBegin(1, TRUE, {1, 2}, {<<"hello">>}) \/ CreateStep(1)
SpecActivity == InitActivity /\ [][NextActivity]_vars

\* Flag submissions on a comment that two other accounts flagged earlier, one
\* request at a time, with the owner's approve button of the dashboard.
EarlierFlaggers == {4, 5}

InitFlagged ==
  /\ now = Noon
  /\ requests = [k \in {} |-> <<>>]
  /\ hist = [k \in Keys |-> NoHist]
  /\ lastAdmit = NoAdmit
  /\ env \in [WEBHOOK_SECRET : {FALSE}, RESEND_API_KEY : {FALSE}, foreign_keys : BOOLEAN]
  /\ users = [id \in UserIds \cup EarlierFlaggers |-> userRow(id, 0, 0)]
  /\ sites = <<>>
  /\ comments = <<[commentRow(1, 1, "approved", 0) EXCEPT !.flags = Cardinality(EarlierFlaggers)]>>
  /\ comment_likes = {}
  /\ comment_flags = <<[comment_id |-> 1, user_id |-> 4],
                       [comment_id |-> 1, user_id |-> 5]>>
  /\ queue = <<>>
  /\ pc = [p \in Procs |-> "idle"]
  /\ req = [p \in Procs |-> NoReq]
  /\ resp = [p \in Procs |-> NoResp]
  /\ started = 0

\* POST /api/comments/:id/approve, called by approveComment() of the
\* dashboard: the owner sets a comment that awaits review back to approved.
Approve(cid) ==
  /\ pc[1] \in {"idle", "done"}
  /\ cid \in DOMAIN comments
  /\ comments[cid].status = "pending"
  /\ comments' = updateStatus(comments, cid, "approved")
  /\ UNCHANGED <<rlVars, env, users, sites, comment_likes, comment_flags, queue,
                 procVars>>

NextFlagged ==
  \/ FlagBegin(1, TRUE, UserIds)
  \/ FlagStep(1)
  \/ \E cid \in CommentIds : Approve(cid)

SpecFlagged == InitFlagged /\ [][NextFlagged]_vars

\* comment submissions and replies by logged-in users to a site of any
\* moderation policy, one request at a time; a reply may name a parent that
\* does not exist
NextReply ==
  ReplyBegin(1, TRUE, UserIds, {<<"hello">>}, {0} \cup CommentIds) \/ CreateStep(1)
InitReply == InitOneSite(BOOLEAN, BOOLEAN, {TRUE})
SpecReply == InitReply /\ [][NextReply]_vars

\* Submissions of any one-word content to a moderated, filtered site with the
\* default threshold, one request at a time: user 1 registered long ago and
\* has no reputation, users 2 and 3 registered two hours ago, user 3 has
\* reputation 50.
NewUsers == <<userRow(1, 0, 0), userRow(2, 0, Noon - 2 * HourMs),
              userRow(3, 50, Noon - 2 * HourMs)>>
NextCreateNew ==
  CreateBegin(1, TRUE, UserIds, {<<>>} \cup {<<w>> : w \in Words}) \/ CreateStep(1)
InitCreateNew == InitSiteOf(NewUsers, {TRUE}, {TRUE}, {TRUE}, {TRUE})
SpecCreateNew == InitCreateNew /\ [][NextCreateNew]_vars

\* Three users flag the same comment at the same time, one request each on
\* three slots; the comment was approved and had no flag, or one flag by
\* another account.
ConcurrentFlaggers == {1, 2, 3}

InitFlag3 ==
  /\ now = Noon
  /\ requests = [k \in {} |-> <<>>]
  /\ hist = [k \in Keys |-> NoHist]
  /\ lastAdmit = NoAdmit
  /\ env \in [WEBHOOK_SECRET : {FALSE}, RESEND_API_KEY : {FALSE}, foreign_keys : BOOLEAN]
  /\ users = [id \in UserIds \cup EarlierFlaggers |-> userRow(id, 0, 0)]
  /\ sites = <<>>
  /\ \/ /\ comments = <<commentRow(1, 1, "approved", 0)>>
        /\ comment_flags = <<>>
     \/ /\ comments = <<[commentRow(1, 1, "approved", 0) EXCEPT !.flags = 1]>>
        /\ comment_flags = <<[comment_id |-> 1, user_id |-> 4]>>
  /\ comment_likes = {}
  /\ queue = <<>>
  /\ pc = [p \in ConcurrentFlaggers |-> "idle"]
  /\ req = [p \in ConcurrentFlaggers |-> NoReq]
  /\ resp = [p \in ConcurrentFlaggers |-> NoResp]
  /\ started = 0

NextFlag3 ==
  \E p \in ConcurrentFlaggers :
    \/ /\ pc[p] = "idle"
       /\ FlagBegin(p, FALSE, {p})
       /\ req'[p].cid = 1
    \/ FlagStep(p)

SpecFlag3 == InitFlag3 /\ [][NextFlag3]_vars

\* The spam scorer alone: two calls on the same content and the same author
\* record, the second after the first, while the clock advances.
RECURSIVE contentsUpTo(_)
contentsUpTo(n) ==
  IF n = 0 THEN {<<>>}
  ELSE LET shorter == contentsUpTo(n - 1)
       IN  shorter \cup {Append(c, w) : c \in shorter, w \in Words}

ScoreCreated == {0, Noon - DayMs, Noon - 23 * HourMs}
ScoreReputations == {-1, 9, 10}

InitScore ==
  /\ now = Noon
  /\ requests = [k \in {} |-> <<>>]
  /\ hist = [k \in Keys |-> NoHist]
  /\ lastAdmit = NoAdmit
  /\ env = [WEBHOOK_SECRET |-> FALSE, RESEND_API_KEY |-> FALSE, foreign_keys |-> TRUE]
  /\ users = <<>>
  /\ sites = <<>>
  /\ comments = <<>>
  /\ comment_likes = {}
  /\ comment_flags = <<>>
  /\ queue = <<>>
  /\ pc = [p \in Procs |-> "s_score"]
  /\ \E content \in contentsUpTo(MaxWords), created_at \in ScoreCreated,
        reputation \in ScoreReputations :
       req = [p \in Procs |->
                [NoReq EXCEPT !.kind = "score", !.content = content,
                              !.user = userRow(1, reputation, created_at)]]
  /\ resp = [p \in Procs |-> NoResp]
  /\ started = 0

\* calculateSpamScore(content, user) called at the current time
Score(p) ==
  /\ pc[p] = "s_score"
  /\ \A q \in Procs : q < p => pc[q] = "done"
  /\ req' = [req EXCEPT ![p].score = calculateSpamScore(req[p].content, req[p].user, now),
                         ![p].at = now]
  /\ pc' = [pc EXCEPT ![p] = "done"]
  /\ UNCHANGED <<rlVars, env, dbVars, resp, started>>

\* an hour passes
Later ==
  /\ now < Noon + MaxHours * HourMs
  /\ now' = now + HourMs
  /\ UNCHANGED <<requests, hist, lastAdmit, env, dbVars, procVars>>

NextScore == (\E p \in Procs : Score(p)) \/ Later
SpecScore == InitScore /\ [][NextScore]_vars

\* comment submissions by logged-in users, one at a time, to a site with or
\* without webhook URL and signing secret, and the queue consumer
NextQueue ==
  \/ CreateBegin(1, FALSE, {1, 2}, {<<"hello">>})
  \/ CreateStep(1)
  \/ StartBatch
  \/ \E i \in DOMAIN queue, responseOk \in BOOLEAN : Consume(i, responseOk)
  \/ \E i \in DOMAIN queue : Redeliver(i)
InitQueue == InitSite({TRUE}, {TRUE}, BOOLEAN, BOOLEAN)
SpecQueue == InitQueue /\ [][NextQueue]_vars

\* The queue and its consumer alone: a handler calls EMAIL_QUEUE.send with a
\* webhook or an email message.
Send(type) ==
  /\ Len(queue) < MaxMessages
  /\ queue' = Append(queue, newMessage(type, Len(queue) + 1, "approved", 0))
  /\ UNCHANGED <<rlVars, env, users, sites, comments, comment_likes, comment_flags,
                 procVars>>

InitConsumer ==
  /\ now = Noon
  /\ requests = [k \in {} |-> <<>>]
  /\ hist = [k \in Keys |-> NoHist]
  /\ lastAdmit = NoAdmit
  /\ env \in [WEBHOOK_SECRET : {TRUE}, RESEND_API_KEY : BOOLEAN, foreign_keys : {TRUE}]
  /\ users = <<>>
  /\ sites = <<>>
  /\ comments = <<>>
  /\ comment_likes = {}
  /\ comment_flags = <<>>
  /\ queue = <<>>
  /\ pc = [p \in Procs |-> "idle"]
  /\ req = [p \in Procs |-> NoReq]
  /\ resp = [p \in Procs |-> NoResp]
  /\ started = 0

NextConsumer ==
  \/ \E type \in {"webhook", "new_comment"} : Send(type)
  \/ StartBatch
  \/ \E i \in 1..MaxMessages, responseOk \in BOOLEAN : Consume(i, responseOk)
  \/ \E i \in 1..MaxMessages : Redeliver(i)
SpecConsumer == InitConsumer /\ [][NextConsumer]_vars

\* The queue delivers waiting and retried messages again and again, the
\* consumer's loop goes on once the call it awaits has returned or thrown,
\* and a remote end asked again and again eventually answers with 2xx.
FairConsumer ==
  /\ WF_vars(StartBatch)
  /\ \A i \in 1..MaxMessages :
       /\ WF_vars(Redeliver(i))
       /\ WF_vars(\E responseOk \in BOOLEAN : Consume(i, responseOk))
       /\ SF_vars(Consume(i, TRUE))
FairSpecConsumer == SpecConsumer /\ FairConsumer

\* The status decision alone, on every combination of policy, reputation
\* and score.
ModThresholds == {0, 29, 30, 31}
ModReputations == {-1, 0, 9, 10, 50}
ModScores == {0, 29, 30, 31, 100}

InitModeration ==
  /\ now = Noon
  /\ requests = [k \in {} |-> <<>>]
  /\ hist = [k \in Keys |-> NoHist]
  /\ lastAdmit = NoAdmit
  /\ env = [WEBHOOK_SECRET |-> FALSE, RESEND_API_KEY |-> FALSE, foreign_keys |-> TRUE]
  /\ users = <<>>
  /\ sites = <<>>
  /\ comments = <<>>
  /\ comment_likes = {}
  /\ comment_flags = <<>>
  /\ queue = <<>>
  /\ pc = [p \in Procs |-> IF p = 1 THEN "m_decide" ELSE "idle"]
  /\ \E moderation_enabled \in BOOLEAN, spam_filter_enabled \in BOOLEAN,
        threshold \in ModThresholds, reputation \in ModReputations,
        score \in ModScores :
       req = [p \in Procs |->
                IF p = 1
                THEN [NoReq EXCEPT
                        !.kind = "decide",
                        !.site = siteRow(moderation_enabled, spam_filter_enabled, threshold),
                        !.user = userRow(1, reputation, 0),
                        !.score = score]
                ELSE NoReq]
  /\ resp = [p \in Procs |-> NoResp]
  /\ started = 0

\* lines 1632-1643 of the handler, applied to the inputs drawn
Decide(p) ==
  /\ pc[p] = "m_decide"
  /\ LET spamScore == effectiveScore(req[p].site, req[p].score)
     IN  req' = [req EXCEPT ![p].spamScore = spamScore,
                            ![p].status = commentStatus(req[p].site, req[p].user, spamScore)]
  /\ Respond(p, 200, statusMessage(req'[p].status))
  /\ UNCHANGED <<rlVars, env, dbVars, started>>

NextModeration == Decide(1)
SpecModeration == InitModeration /\ [][NextModeration]_vars

\* ---------------------------------------------------------------- claims
\* C1: for one key starting from an empty window, every call made while
\* fewer than 60 admitted calls are less than 60 s old is Allowed (so the
\* first 60 calls of the first window are), every call made while 60 admitted
\* calls are less than 60 s old is Denied with 429, and after a first window
\* that admitted 60 calls the call made more than 60 s after the first
\* admitted call is Allowed again.
C1_SlidingWindow ==
  lastAdmit.key # "" =>
    /\ lastAdmit.status \in {200, 429}
    /\ (lastAdmit.priorInWindow < Capacity) => lastAdmit.status = 200
    /\ (lastAdmit.priorInWindow >= Capacity) => lastAdmit.status = 429
    /\ ( /\ lastAdmit.phase = "full"
         /\ lastAdmit.at - lastAdmit.firstAt > WindowMs ) => lastAdmit.status = 200

\* the 61st admission: 60 calls admitted in the first window, then a call
\* more than 60 s after the first one
C1_Witness ==
  /\ lastAdmit.key = MainKey
  /\ lastAdmit.status = 200
  /\ lastAdmit.phase = "full"
  /\ lastAdmit.at - lastAdmit.firstAt > WindowMs

\* a call denied inside the first window
C1_WitnessDenied ==
  /\ lastAdmit.key = MainKey
  /\ lastAdmit.status = 429
  /\ lastAdmit.phase = "first"
  /\ lastAdmit.priorInWindow = Capacity

\* users holding at least one flag record on comment cid
flaggers(rows, cid) == {u \in UserIds : flagRows(rows, cid, u) # {}}

\* users holding a like record on comment cid
likers(rows, cid) == {u \in UserIds : <<cid, u>> \in rows}

\* C3: in every reachable state there is at most one flag record per
\* (comment, user) and the flags counter of a comment does not exceed the
\* number of users who flagged it.
C3_OneFlagPerUser ==
  \A cid \in DOMAIN comments :
    /\ \A u \in UserIds : Cardinality(flagRows(comment_flags, cid, u)) <= 1
    /\ comments[cid].flags <= Cardinality(flaggers(comment_flags, cid))

\* C4: whenever no like handler stands between its two writes, the likes
\* counter of every comment equals the number of its like records and is
\* not negative.
C4_LikesMatchRecords ==
  (\A p \in Procs : pc[p] \notin {"l_dec", "l_inc"}) =>
    \A cid \in DOMAIN comments :
      /\ comments[cid].likes = Cardinality(likers(comment_likes, cid))
      /\ comments[cid].likes >= 0

\* The flag request of slot 1 has been answered and named an existing
\* comment as an authenticated user.
FlagAnswered ==
  /\ pc[1] = "done"
  /\ req[1].kind = "flag"
  /\ req[1].user.id # 0
  /\ req[1].cid \in DOMAIN comments

C8_ThirdFlagPending ==
  (FlagAnswered /\ resp[1].code = 200) =>
    LET cid == req[1].cid
        nth == Cardinality(flaggers(comment_flags, cid))
    IN  /\ nth \in {1, 2} => comments[cid].status = req[1].db0.comments[cid].status
        /\ nth = 3 => comments[cid].status = "pending"

\* the third distinct user has flagged a comment that was approved
C8_Witness ==
  /\ FlagAnswered
  /\ resp[1].code = 200
  /\ Cardinality(flaggers(comment_flags, req[1].cid)) = 3
  /\ Cardinality(flaggers(req[1].db0.comment_flags, req[1].cid)) = 2
  /\ req[1].db0.comments[req[1].cid].status = "approved"
  /\ comments[req[1].cid].status = "pending"

\* Slot 1 has answered two like toggles in a row of the same user on the same
\* existing comment.
LikedTwice ==
  /\ pc[1] = "done"
  /\ req[1].kind = "like"
  /\ req[1].user.id # 0
  /\ req[1].cid \in DOMAIN comments
  /\ req[1].prev.kind = "like"
  /\ req[1].prev.cid = req[1].cid
  /\ req[1].prev.token = req[1].token

\* C9: two consecutive Like(c,u) calls answer liked:true then liked:false
\* when u had not liked c, liked:false then liked:true when u had, and leave
\* the likes counter and the like records as they were before the first.
C9_LikeRoundTrip ==
  LikedTwice =>
    LET cid == req[1].cid
        before == req[1].prev.db0
        had == <<cid, req[1].user.id>> \in before.comment_likes
    IN  /\ req[1].prev.resp.body = (IF had THEN "liked:false" ELSE "liked:true")
        /\ resp[1].body = (IF had THEN "liked:true" ELSE "liked:false")
        /\ comments[cid].likes = before.comments[cid].likes
        /\ comment_likes = before.comment_likes

\* like then unlike by a user who had not liked the comment
C9_Witness ==
  /\ LikedTwice
  /\ req[1].prev.resp.body = "liked:true"
  /\ resp[1].body = "liked:false"
  /\ <<req[1].cid, req[1].user.id>> \notin comment_likes

\* the decision order of the moderation engine, first match wins
firstMatch(moderation_enabled, spam_filter_enabled, threshold, reputation, score) ==
  LET s == IF spam_filter_enabled THEN score ELSE 0
  IN  IF ~moderation_enabled THEN "approved"
      ELSE IF s >= threshold THEN "spam"
      ELSE IF reputation < 10 THEN "pending"
      ELSE "approved"

\* C2: the status assigned equals the first match of: score taken as 0 when
\* the spam filter is off; moderation off gives approved; score >= threshold
\* gives spam; reputation < 10 gives pending; else approved.  With moderation
\* and filter on and threshold 30: score 30 gives spam, score 29 gives
\* pending at reputation 9 and approved at reputation 50.
C2_StatusDecision ==
  (pc[1] = "done" /\ req[1].kind = "decide") =>
    LET site == req[1].site
        rep == req[1].user.reputation
        on30 == /\ site.moderation_enabled
                /\ site.spam_filter_enabled
                /\ site.auto_approve_threshold = 30
    IN  /\ req[1].status = firstMatch(site.moderation_enabled, site.spam_filter_enabled,
                                      site.auto_approve_threshold, rep, req[1].score)
        /\ (on30 /\ req[1].score >= 30) => req[1].status = "spam"
        /\ (on30 /\ req[1].score = 29 /\ rep = 9) => req[1].status = "pending"
        /\ (on30 /\ req[1].score = 29 /\ rep = 50) => req[1].status = "approved"
        /\ ~site.moderation_enabled => req[1].status = "approved"

\* threshold 30, score 29, reputation 9: pending
C2_Witness ==
  /\ pc[1] = "done"
  /\ req[1].kind = "decide"
  /\ req[1].site.moderation_enabled
  /\ req[1].site.spam_filter_enabled
  /\ req[1].site.auto_approve_threshold = 30
  /\ req[1].score = 29
  /\ req[1].user.reputation = 9
  /\ req[1].status = "pending"

\* C5: a comment submission that the RateLimiter denied is answered with 429
\* and nothing else happened: no user or site was read, no score or status
\* computed, and users, sites, comments, likes, flags and the queue are as
\* they were when the request arrived.
C5_DeniedIsSilent ==
  (pc[1] = "done" /\ req[1].kind = "create" /\ lastAdmit.status = 429) =>
    /\ resp[1] = [code |-> 429, body |-> "Too many requests"]
    /\ db = req[1].db0
    /\ req[1].status = ""
    /\ req[1].score = 0 /\ req[1].spamScore = 0
    /\ req[1].user = NoUser /\ req[1].site = NoSite
    /\ ~req[1].wrote

\* a logged-in user's submission to an existing site is denied
C5_Witness ==
  /\ pc[1] = "done"
  /\ req[1].kind = "create"
  /\ lastAdmit.status = 429
  /\ req[1].token \in UserIds
  /\ req[1].siteKey \in DOMAIN sites
  /\ resp[1].code = 429

\* C6: a request has written to storage only if the RateLimiter admitted it.
C6_WritesAdmitted ==
  \A p \in Procs : req[p].wrote => req[p].admitted

Quiet == \A p \in Procs : pc[p] \in {"idle", "done"}

\* reputation of the users before any request
InitialReputation == [u \in UserIds |-> SiteUsers[u].reputation]

\* C10: once the submissions have all been answered, if the N comments
\* created are all approved and all by the same author, the site's
\* total_comments and the author's reputation have each grown by exactly N.
C10_NoLostUpdate ==
  Quiet =>
    \A u \in UserIds :
      (\A i \in DOMAIN comments :
          comments[i].user_id = u /\ comments[i].status = "approved") =>
        /\ sites["s1"].total_comments = Len(comments)
        /\ users[u].reputation = InitialReputation[u] + Len(comments)

\* two submissions of user 1 overlapped (both read reputation 10) and both
\* were approved
C10_Witness ==
  /\ Quiet
  /\ Len(comments) = 2
  /\ \A i \in DOMAIN comments : comments[i].user_id = 1 /\ comments[i].status = "approved"
  /\ req[1].user.reputation = 10
  /\ req[2].user.reputation = 10
  /\ users[1].reputation = 12

\* The submission of slot 1 has inserted a comment.
Created(p) ==
  /\ req[p].kind = "create"
  /\ req[p].wrote
  /\ req[p].newId \in DOMAIN comments

\* C11: a comment creation raises the author's reputation by exactly 1 when
\* the status stored is approved and leaves it as it was when the status is
\* pending or spam; at no point of a creation has the author's reputation
\* moved by more than one delta of +1, and nobody else's reputation moves.
C11_ReputationDelta ==
  Created(1) =>
    LET author == req[1].user.id
        before == req[1].db0.users
        status == comments[req[1].newId].status
        delta == users[author].reputation - before[author].reputation
    IN  /\ delta \in {0, 1}
        /\ delta = 1 => status = "approved"
        /\ pc[1] = "done" => delta = (IF status = "approved" THEN 1 ELSE 0)
        /\ \A u \in UserIds \ {author} : users[u].reputation = before[u].reputation

\* a second submission was stored as pending, after an approved one
C11_Witness ==
  /\ Created(1)
  /\ pc[1] = "done"
  /\ Len(comments) = 2
  /\ comments[1].status = "approved"
  /\ users[comments[1].user_id].reputation = InitialReputation[comments[1].user_id] + 1
  /\ comments[2].status = "pending"
  /\ users[req[1].user.id].reputation = req[1].db0.users[req[1].user.id].reputation

\* the sum of the terms of the score, before it is clamped
rawScore(content, user, t) ==
  LET h == [k \in {"vocab", "promo", "url", "caps", "scheme"} |->
              LET RECURSIVE count(_)
                  count(c) == IF c = <<>> THEN 0
                              ELSE wordHits(Head(c))[k] + count(Tail(c))
              IN  count(content)]
  IN  10 * (h.vocab + h.promo + h.url + h.caps)
        + (IF t - user.created_at < DayMs THEN 20 ELSE 0)
        + (IF user.reputation < 10 THEN 15 ELSE 0)
        + (IF h.scheme > 2 THEN 15 * h.scheme ELSE 0)

\* C12: for every content and author profile the score returned by the spam
\* scorer is an integer between 0 and 100.
C12_ScoreInRange ==
  \A p \in Procs :
    (pc[p] = "done" /\ req[p].kind = "score") => req[p].score \in 0..100

\* a content whose terms add up to more than 100 was scored 100, for an
\* author of negative reputation
C12_Witness ==
  /\ pc[1] = "done"
  /\ req[1].kind = "score"
  /\ rawScore(req[1].content, req[1].user, req[1].at) > 100
  /\ req[1].user.reputation < 0
  /\ req[1].score = 100

\* C13: two calls of the spam scorer with the same content and the same
\* author record (same created_at, same reputation) return the same score,
\* whenever the two calls are made.
C13_SameScore ==
  ( /\ \A p \in Procs : pc[p] = "done" /\ req[p].kind = "score"
    /\ req[1].content = req[2].content
    /\ req[1].user = req[2].user ) => req[1].score = req[2].score

\* Slot 1 has answered the scenario: moderation and spam filter on, threshold
\* 30, an author created 2 hours ago with reputation 0, a content with one
\* URL and the phrase "buy now".
ScenarioAnswered ==
  /\ pc[1] = "done"
  /\ Created(1)
  /\ req[1].site.moderation_enabled
  /\ req[1].site.spam_filter_enabled
  /\ req[1].site.auto_approve_threshold = 30
  /\ req[1].user.created_at = now - 2 * HourMs
  /\ req[1].user.reputation = 0
  /\ req[1].content = ScenarioContent

\* C14 as stated: in the scenario the spam score is exactly 30 (20 for the
\* account age plus 10 for the phrase), the status is spam and no reputation
\* is credited.
C14_Scenario30 ==
  ScenarioAnswered =>
    /\ comments[req[1].newId].spam_score = 30
    /\ comments[req[1].newId].status = "spam"
    /\ users[req[1].user.id].reputation = req[1].db0.users[req[1].user.id].reputation

\* C14 amended: in the scenario the spam score is exactly 55 (10 for the URL,
\* 10 for the phrase, 20 for the account age, 15 for the reputation below
\* 10), the status is spam and no reputation is credited.
C14_Scenario55 ==
  ScenarioAnswered =>
    /\ req[1].score = 10 + 10 + 20 + 15
    /\ comments[req[1].newId].spam_score = 55
    /\ comments[req[1].newId].status = "spam"
    /\ resp[1] = [code |-> 200, body |-> "Your comment was flagged as spam."]
    /\ users[req[1].user.id].reputation = req[1].db0.users[req[1].user.id].reputation

\* the scenario has been answered on an empty site
C14_Witness ==
  /\ ScenarioAnswered
  /\ req[1].db0.comments = <<>>
  /\ comments[1].status = "spam"
  /\ users[2].reputation = 0

\* timestamps of `key` that a call at time t counts
unexpired(map, key, t) == recentOf(getRequests(map, key), t)

\* the earliest time, from t on, at which a call for `key` is admitted if no
\* other call is admitted before: t itself while fewer than Capacity
\* timestamps are unexpired, else the time at which enough of them expire
readmitAt(map, key, t) ==
  LET r == unexpired(map, key, t)
  IN  IF Len(r) < Capacity THEN t ELSE r[Len(r) - Capacity + 1] + WindowMs

\* C15: a call answered 429 appends no timestamp for its key: the unexpired
\* timestamps of the key are the same after the call as before it, and so is
\* the time at which the key is admitted again.
C15_DeniedRecordsNothing ==
  [][(now' = now /\ lastAdmit'.status = 429) =>
       LET key == lastAdmit'.key
       IN  /\ unexpired(requests', key, now) = unexpired(requests, key, now)
           /\ \A i \in 1..Len(getRequests(requests', key)) :
                 getRequests(requests', key)[i] # now
                   \/ now \in {getRequests(requests, key)[j] :
                                 j \in 1..Len(getRequests(requests, key))}
           /\ readmitAt(requests', key, now) = readmitAt(requests, key, now)]_vars

\* a call was denied 40 s into a window filled at time 0: the key is
\* admitted again at 60 s, as before the call
C15_Witness ==
  /\ lastAdmit.key = MainKey
  /\ lastAdmit.status = 429
  /\ lastAdmit.at = now
  /\ now > 0
  /\ Len(unexpired(requests, MainKey, now)) = Capacity
  /\ readmitAt(requests, MainKey, now) = WindowMs

\* times at which a later call can be made
LaterTimes == {now, now + TickMs}

\* C16: a call for key k1 leaves the unexpired timestamps of every other key
\* k2 as they were, and the answer that a later call for k2 gets, at once or
\* a tick later, is the one it would have got without the call for k1.
C16_KeysIsolated ==
  [][now' = now =>
       \A k2 \in ((DOMAIN requests) \cup (DOMAIN requests')) \ {lastAdmit'.key} :
         /\ unexpired(requests', k2, now) = unexpired(requests, k2, now)
         /\ \A t \in LaterTimes :
               fetchStatus(requests', k2, t) = fetchStatus(requests, k2, t)]_vars

\* a call for /login was admitted while the other key, whose first window
\* had expired, was at its limit
C16_Witness ==
  /\ lastAdmit.key = "/login"
  /\ lastAdmit.status = 200
  /\ lastAdmit.at = now
  /\ Len(getRequests(requests, MainKey)) = Capacity
  /\ fetchStatus(requests, MainKey, now) = 429
  /\ getRequests(requests, MainKey)[1] > 0

\* Both callers have been answered, their calls arrived while the key held
\* Capacity - 1 unexpired timestamps, were in flight together, and no time
\* has passed since.
TwoCallsAt59 ==
  /\ \A p \in Procs :
       /\ pc[p] = "done"
       /\ req[p].kind = "admit"
       /\ req[p].seen = Capacity - 1
       /\ req[p].at = now
  /\ \E p \in Procs : req[p].overlap

\* C17: of two calls for a key that arrive concurrently while the key has 59
\* admissions in the window, exactly one is answered 200 and the other 429;
\* in every reachable state the key holds at most 60 unexpired timestamps.
C17_Serialized ==
  /\ TwoCallsAt59 => {resp[p].code : p \in Procs} = {200, 429}
  /\ \A key \in DOMAIN requests : Len(unexpired(requests, key, now)) <= Capacity

\* the two concurrent calls at 59 admissions have been answered, the caller
\* that arrived second was served first and admitted
C17_Witness ==
  /\ TwoCallsAt59
  /\ req[2].overlap
  /\ resp[2].code = 200
  /\ resp[1].code = 429
  /\ Len(unexpired(requests, MainKey, now)) = Capacity

\* the i-th message sent to the queue, if any
messageAt(i) == IF i \in DOMAIN queue THEN queue[i] ELSE newMessage("", 0, "", 0)

\* C18: a webhook message is acknowledged only once a delivery attempt for it
\* was answered 2xx; an attempt answered otherwise marks the message for
\* retry; if retried messages are delivered again and the endpoint
\* eventually answers 2xx, every webhook message sent to the queue is
\* eventually delivered and acknowledged; and every message of a batch is
\* eventually processed, whatever happens to the messages before it.
C18_AtLeastOnce ==
  /\ [](\A i \in DOMAIN queue :
          (queue[i].type = "webhook" /\ queue[i].state = "acked") => queue[i].ok)
  /\ [][\A i \in DOMAIN queue :
          ( /\ queue[i].type = "webhook"
            /\ queue[i].state = "batch"
            /\ queue'[i].state # "batch"
            /\ ~queue'[i].ok ) => (queue'[i].state = "retry" /\ queue'[i].failed)]_vars
  /\ \A i \in 1..MaxMessages :
       (messageAt(i).type = "webhook")
         ~> (messageAt(i).state = "acked" /\ messageAt(i).ok)
  /\ \A i \in 1..MaxMessages :
       (messageAt(i).state = "batch") ~> (messageAt(i).state # "batch")

\* a webhook message whose first attempt failed has been delivered and
\* acknowledged, and so has the message sent after it
C18_Witness ==
  /\ Len(queue) >= 2
  /\ queue[1].type = "webhook"
  /\ queue[1].failed
  /\ queue[1].ok
  /\ queue[1].state = "acked"
  /\ queue[2].state = "acked"

\* webhook messages sent for comment c
webhooksOf(c) == {i \in DOMAIN queue : queue[i].type = "webhook" /\ queue[i].id = c}

\* the creation of comment c has not reached its webhook step yet
BeforeHook(c) ==
  \E p \in Procs : req[p].newId = c /\ pc[p] \in {"c_count", "c_rep", "c_hook"}

\* C19: for every comment created, once its creation is past the webhook
\* step, exactly one webhook message has been sent to the queue if the site
\* has a webhook URL and the signing secret is configured, and none if
\* either is missing; the status in a message is the status stored for its
\* comment.
C19_OneWebhookPerComment ==
  /\ \A c \in DOMAIN comments :
       Cardinality(webhooksOf(c)) =
         (IF ~BeforeHook(c) /\ sites["s1"].webhook_url /\ env.WEBHOOK_SECRET
          THEN 1 ELSE 0)
  /\ \A i \in DOMAIN queue :
       queue[i].type = "webhook" =>
         /\ queue[i].id \in DOMAIN comments
         /\ queue[i].status = comments[queue[i].id].status

\* two comments, one approved and one spam, each with its webhook message
C19_Witness ==
  /\ pc[1] = "done"
  /\ Len(comments) = 2
  /\ comments[1].status = "approved"
  /\ comments[2].status = "spam"
  /\ \A c \in {1, 2} : Cardinality(webhooksOf(c)) = 1
  /\ \E i \in webhooksOf(2) : queue[i].status = "spam"

\* C20: the response to a creation is 200 with the fixed message of the
\* stored status whatever has happened to the webhook message of the comment
\* (waiting, delivered, failed, marked for retry), and a step of the queue or
\* of its consumer changes neither a response nor a handler's progress nor
\* what is stored.
C20_ResponseApartFromDelivery ==
  /\ [](\A p \in Procs :
          (pc[p] = "done" /\ Created(p)) =>
            resp[p] = [code |-> 200,
                       body |-> statusMessage(comments[req[p].newId].status)])
  /\ [][(\E i \in DOMAIN queue : queue'[i].state # queue[i].state) =>
          UNCHANGED <<resp, pc, req, users, sites, comments>>]_vars

\* the response was produced while the webhook message of the comment was
\* waiting, no delivery having been attempted
C20_Witness ==
  /\ pc[1] = "done"
  /\ Created(1)
  /\ resp[1].code = 200
  /\ \E i \in webhooksOf(req[1].newId) :
       queue[i].state = "queued" /\ ~queue[i].ok /\ ~queue[i].failed

\* the same response stands after the delivery of the comment's webhook
\* message has failed
C20_WitnessFailed ==
  /\ pc[1] = "done"
  /\ Created(1)
  /\ resp[1] = [code |-> 200, body |-> "Comment posted successfully!"]
  /\ \E i \in webhooksOf(req[1].newId) : queue[i].state = "retry" /\ queue[i].failed

\* C21: a comment submission, like toggle or flag submission made with the
\* session of a user whose is_banned flag is set is rejected, and comments,
\* like records, flag records, counters, reputations and the queue are as
\* they were when the request arrived.
C21_BannedNoWrite ==
  ( /\ pc[1] = "done"
    /\ req[1].token \in DOMAIN users
    /\ users[req[1].token].is_banned ) =>
    /\ resp[1].code = (IF req[1].kind = "create" THEN 403 ELSE 302)
    /\ db = req[1].db0
    /\ ~req[1].wrote

\* the banned user's submission to the site has been rejected with 403
C21_Witness ==
  /\ pc[1] = "done"
  /\ req[1].token = 2
  /\ users[2].is_banned
  /\ req[1].kind = "create"
  /\ resp[1] = [code |-> 403, body |-> "User not found or banned"]
  /\ req[1].db0.comments # <<>>

\* C22: a like toggle or a flag submission of a logged-in user that names a
\* comment id with no comment row is answered with 404 and leaves like
\* records, flag records, counters and reputations as they were.
C22_MissingCommentNotFound ==
  ( /\ pc[1] = "done"
    /\ req[1].kind \in {"like", "flag"}
    /\ req[1].user.id # 0
    /\ req[1].cid \notin DOMAIN req[1].db0.comments ) =>
    /\ resp[1].code = 404
    /\ db = req[1].db0

\* C23: the flag handler runs its status update exactly when the count it
\* reads back after the increment is 3, and an accepted flag on a comment
\* that already had 3 or more flags and status approved leaves it approved.
C23_FiresAtThresholdOnly ==
  /\ pc[1] = "f_status" => req[1].flags = FlagThreshold
  /\ ( /\ pc[1] = "done"
       /\ req[1].kind = "flag"
       /\ resp[1] = [code |-> 200, body |-> "success:true"]
       /\ req[1].cid \in DOMAIN req[1].db0.comments
       /\ req[1].db0.comments[req[1].cid].flags >= FlagThreshold
       /\ req[1].db0.comments[req[1].cid].status = "approved" ) =>
       comments[req[1].cid].status = "approved"

\* C24: the handler changes no counter and enqueues no message before its
\* comment row is inserted, and when the INSERT fails the request ends with
\* no comment row added, total_comments and every reputation as they were
\* and no message enqueued.
C24_InsertFirst ==
  ( /\ req[1].kind = "create"
    /\ req[1].newId = 0
    /\ pc[1] # "idle" ) =>
    /\ db = req[1].db0
    /\ pc[1] = "done" => resp[1].code # 200

\* a reply to a missing parent was refused by the INSERT, after an earlier
\* comment had been created
C24_Witness ==
  /\ pc[1] = "done"
  /\ req[1].kind = "create"
  /\ req[1].status # ""
  /\ req[1].newId = 0
  /\ req[1].cid \notin DOMAIN comments
  /\ resp[1] = [code |-> 500, body |-> "Internal Server Error"]
  /\ comments # <<>>

\* C25: a created comment raises its site's total_comments by exactly 1 when
\* its status is approved and leaves it as it was when its status is pending
\* or spam.
C25_CountsApprovedOnly ==
  ( pc[1] = "done" /\ Created(1) ) =>
    sites[req[1].siteKey].total_comments =
      req[1].db0.sites[req[1].siteKey].total_comments
        + (IF req[1].status = "approved" THEN 1 ELSE 0)

\* C26: right after a call of the limiter, no key is stored with an empty
\* list, every stored key has a timestamp less than 60 s old, and the stored
\* keys are exactly the keys with an admitted call less than 60 s old.
C26_IdleKeysReclaimed ==
  lastAdmit.at = now =>
    /\ \A k \in DOMAIN requests :
         /\ Len(requests[k]) # 0
         /\ Len(recentOf(requests[k], now)) # 0
    /\ DOMAIN requests = {k \in Keys : Len(hist[k].recent) # 0}

\* a call for /login has just removed the main key, whose admitted calls are
\* all more than 60 s old
C26_Witness ==
  /\ lastAdmit.at = now
  /\ lastAdmit.key = "/login"
  /\ hist[MainKey].firstAt = 0
  /\ now - hist[MainKey].firstAt >= WindowMs
  /\ MainKey \notin DOMAIN requests
  /\ "/login" \in DOMAIN requests

RECURSIVE hitCount(_, _)
\* number of matches of one pattern in a content
hitCount(content, k) ==
  IF content = <<>> THEN 0
  ELSE wordHits(Head(content))[k] + hitCount(Tail(content), k)

\* the terms of the score for a content with `urls` URLs in the per-URL term
\* and `links` links in the more-than-2 term
scoreTerms(content, user, t, urls, links) ==
  10 * hitCount(content, "vocab") + 10 * hitCount(content, "promo")
    + 10 * urls + 10 * hitCount(content, "caps")
    + (IF links > 2 THEN 15 * links ELSE 0)
    + (IF t - user.created_at < DayMs THEN 20 ELSE 0)
    + (IF user.reputation < 10 THEN 15 ELSE 0)

\* C27 as stated: the score is min(100, sum of the terms) with one URL count
\* used by both the per-URL term and the more-than-2-URLs term (the number
\* of URLs, or the number of scheme prefixes).
C27_OneUrlCount ==
  \A p \in Procs :
    (pc[p] = "done" /\ req[p].kind = "score") =>
      \E n \in {hitCount(req[p].content, "url"), hitCount(req[p].content, "scheme")} :
        req[p].score = Min(100, scoreTerms(req[p].content, req[p].user, req[p].at, n, n))

\* C27 (amended): the score is min(100, sum of the terms) where the per-URL
\* term counts the matches of https?://[^\s]+ and the more-than-2 term counts
\* the occurrences of https?://, two counts that differ when a URL holds
\* another one.
C27_TwoCounts ==
  \A p \in Procs :
    (pc[p] = "done" /\ req[p].kind = "score") =>
      req[p].score = Min(100, scoreTerms(req[p].content, req[p].user, req[p].at,
                                         hitCount(req[p].content, "url"),
                                         hitCount(req[p].content, "scheme")))

\* two URLs, one of them holding a second scheme prefix, scored 20 + 45 for
\* an established author
C27_Witness ==
  /\ pc[1] = "done"
  /\ req[1].kind = "score"
  /\ req[1].content = <<"http://a.io?u=http://b.io", "http://a.io">>
  /\ req[1].user.reputation = 10
  /\ req[1].at - req[1].user.created_at >= DayMs
  /\ req[1].score = 65

\* C28: on a site with moderation and spam filter on and threshold 30, a
\* comment whose author registered less than 24 hours ago and has reputation
\* below 10 is stored with status spam and answered as spam, whatever its
\* content.
C28_NewAuthorIsSpam ==
  ( /\ pc[1] = "done"
    /\ Created(1)
    /\ req[1].site.moderation_enabled
    /\ req[1].site.spam_filter_enabled
    /\ req[1].site.auto_approve_threshold = 30
    /\ now - req[1].user.created_at < DayMs
    /\ req[1].user.reputation < 10 ) =>
    /\ comments[req[1].newId].status = "spam"
    /\ comments[req[1].newId].spam_score >= 35
    /\ resp[1] = [code |-> 200, body |-> "Your comment was flagged as spam."]

\* user 2, registered two hours ago, posted a word that matches no pattern:
\* score 35, status spam
C28_Witness ==
  /\ pc[1] = "done"
  /\ Created(1)
  /\ req[1].token = 2
  /\ req[1].content = <<"hello">>
  /\ comments[req[1].newId].spam_score = 35
  /\ comments[req[1].newId].status = "spam"

\* Slot 1 has answered a like and then an unlike of the same user on the
\* same existing comment.
LikeCycle ==
  /\ LikedTwice
  /\ req[1].prev.resp.body = "liked:true"
  /\ resp[1].body = "liked:false"

\* C29: a like followed by the unlike of the same user, who may be the
\* comment's author, leaves the likes counter where it was before the like
\* and the author's reputation one higher, so that k cycles raise it by k;
\* and no step of a comment creation, like toggle or flag submission lowers
\* the reputation of any user.
C29_CreditedNeverDebited ==
  /\ [](LikeCycle =>
          LET cid == req[1].cid
              before == req[1].prev.db0
              author == comments[cid].user_id
          IN  /\ comments[cid].likes = before.comments[cid].likes
              /\ users[author].reputation = before.users[author].reputation + 1)
  /\ [][\A u \in DOMAIN users : users'[u].reputation >= users[u].reputation]_vars

\* user 1 has liked and unliked their own comment twice: likes is 0 again and
\* their reputation is 2 above the 10 they started with
C29_Witness ==
  /\ LikeCycle
  /\ req[1].token = 1
  /\ comments[req[1].cid].user_id = 1
  /\ comments[req[1].cid].likes = 0
  /\ req[1].prev.db0.users[1].reputation = SiteUsers[1].reputation + 1
  /\ users[1].reputation = SiteUsers[1].reputation + 2
  /\ Len(comments) = 1

\* flag rows of the comment that were there before the three requests
earlierFlags(cid) ==
  Cardinality({i \in DOMAIN comment_flags :
                 /\ comment_flags[i].comment_id = cid
                 /\ comment_flags[i].user_id \in EarlierFlaggers})

\* C30: once the flag requests of three distinct users on the same comment,
\* interleaved in any way, have all been answered, each was accepted, the
\* comment's flags counter is its previous value plus 3 and its status is
\* pending.
C30_ThresholdNotMissed ==
  (\A p \in ConcurrentFlaggers : pc[p] = "done") =>
    /\ \A p \in ConcurrentFlaggers : resp[p] = [code |-> 200, body |-> "success:true"]
    /\ comments[1].flags = earlierFlags(1) + 3
    /\ comments[1].status = "pending"

\* the three requests have been answered and only slot 3, the last to read
\* the counter back, ran the status update
C30_Witness ==
  /\ \A p \in ConcurrentFlaggers : pc[p] = "done"
  /\ req[1].flags = 0
  /\ req[2].flags = 0
  /\ req[3].flags = 3
  /\ comments[1].flags = 3
  /\ comments[1].status = "pending"
====
